---- MODULE Spec2Model ----
(***************************************************************************)
(* Preprocessing of the two Whisperer bridging headers.                    *)
(*                                                                         *)
(* The repository is two header files, each an include guard around four   *)
(* #include directives.  Each file is written down line by line as data    *)
(* (RelativeFacade, AbsoluteFacade) and the actions execute the directives *)
(* of whichever file is on top of a compiled unit's include stack, against *)
(* a build environment (which external header files exist, where the       *)
(* checkout lives, whether the search path reaches another copy).          *)
(***************************************************************************)
EXTENDS Integers, Sequences, FiniteSets, TLC

\* ------------------------------------------------------------------ bounds
\* facade inclusions written in one compiled unit
MaxIncludes == 2
\* inclusions of the facade made from inside the external headers, per unit
MaxReentry == 1

\* ------------------------------------------------------- the source files
Guard == "Whisperer_Bridging_Header_h"

RelPrefix == "../whisper.cpp/"
AbsPrefix == "/Users/alexanderi/Downloads/whisperer/whisper.cpp/"

GgmlH == "ggml/include/ggml.h"
GgmlCpuH == "ggml/include/ggml-cpu.h"
GgmlBackendH == "ggml/include/ggml-backend.h"
WhisperH == "include/whisper.h"

\* the four external headers, in the order the facade names them
Headers == <<GgmlH, GgmlCpuH, GgmlBackendH, WhisperH>>
HeaderSet == {Headers[i] : i \in 1..Len(Headers)}

Comment == [op |-> "comment", macro |-> "", body |-> "", prefix |-> "", path |-> ""]
Blank == [op |-> "blank", macro |-> "", body |-> "", prefix |-> "", path |-> ""]
IfNDefLine(m) == [op |-> "ifndef", macro |-> m, body |-> "", prefix |-> "", path |-> ""]
DefineLine(m, b) == [op |-> "define", macro |-> m, body |-> b, prefix |-> "", path |-> ""]
IncludeLine(pre, p) == [op |-> "include", macro |-> "", body |-> "", prefix |-> pre, path |-> p]
EndIfLine == [op |-> "endif", macro |-> "", body |-> "", prefix |-> "", path |-> ""]

\* variants of Whisperer/Whisperer-Bridging-Header.h, each with one slip in it
\* the #define spells the guard macro differently from the #ifndef
RelativeFacade_GuardMisspelled ==
  <<Comment, Comment, Comment, Comment, Comment, Comment,
    Blank,
    IfNDefLine(Guard),
    DefineLine("Whisperer_Bridging_Header_H", ""),
    Blank,
    IncludeLine(RelPrefix, GgmlH),
    IncludeLine(RelPrefix, GgmlCpuH),
    IncludeLine(RelPrefix, GgmlBackendH),
    IncludeLine(RelPrefix, WhisperH),
    Blank,
    EndIfLine>>

\* the guard macro is given a value
RelativeFacade_GuardValued ==
  <<Comment, Comment, Comment, Comment, Comment, Comment,
    Blank,
    IfNDefLine(Guard),
    DefineLine(Guard, "1"),
    Blank,
    IncludeLine(RelPrefix, GgmlH),
    IncludeLine(RelPrefix, GgmlCpuH),
    IncludeLine(RelPrefix, GgmlBackendH),
    IncludeLine(RelPrefix, WhisperH),
    Blank,
    EndIfLine>>

\* the last #include is left out
RelativeFacade_DropsWhisper ==
  <<Comment, Comment, Comment, Comment, Comment, Comment,
    Blank,
    IfNDefLine(Guard),
    DefineLine(Guard, ""),
    Blank,
    IncludeLine(RelPrefix, GgmlH),
    IncludeLine(RelPrefix, GgmlCpuH),
    IncludeLine(RelPrefix, GgmlBackendH),
    Blank,
    Blank,
    EndIfLine>>

\* the guard macro is defined after the #include directives
RelativeFacade_DefineLast ==
  <<Comment, Comment, Comment, Comment, Comment, Comment,
    Blank,
    IfNDefLine(Guard),
    Blank,
    IncludeLine(RelPrefix, GgmlH),
    IncludeLine(RelPrefix, GgmlCpuH),
    IncludeLine(RelPrefix, GgmlBackendH),
    IncludeLine(RelPrefix, WhisperH),
    DefineLine(Guard, ""),
    Blank,
    EndIfLine>>

\* Whisperer/Whisperer-Bridging-Header.h, line by line
RelativeFacade ==
  <<Comment, Comment, Comment, Comment, Comment, Comment,
    Blank,
    IfNDefLine(Guard),
    DefineLine(Guard, ""),
    Blank,
    IncludeLine(RelPrefix, GgmlH),
    IncludeLine(RelPrefix, GgmlCpuH),
    IncludeLine(RelPrefix, GgmlBackendH),
    IncludeLine(RelPrefix, WhisperH),
    Blank,
    EndIfLine>>

\* variants of Whisperer/whisperer/whisperer/Whisperer-Bridging-Header.h, each
\* with one slip in it
\* the second #include repeats the first
AbsoluteFacade_RepeatsGgml ==
  <<Comment, Comment, Comment, Comment, Comment, Comment,
    Blank,
    IfNDefLine(Guard),
    DefineLine(Guard, ""),
    Blank,
    IncludeLine(AbsPrefix, GgmlH),
    IncludeLine(AbsPrefix, GgmlH),
    IncludeLine(AbsPrefix, GgmlBackendH),
    IncludeLine(AbsPrefix, WhisperH),
    Blank,
    EndIfLine>>

\* the last two #include directives change places
AbsoluteFacade_Reordered ==
  <<Comment, Comment, Comment, Comment, Comment, Comment,
    Blank,
    IfNDefLine(Guard),
    DefineLine(Guard, ""),
    Blank,
    IncludeLine(AbsPrefix, GgmlH),
    IncludeLine(AbsPrefix, GgmlCpuH),
    IncludeLine(AbsPrefix, WhisperH),
    IncludeLine(AbsPrefix, GgmlBackendH),
    Blank,
    EndIfLine>>

\* the file is guarded by a macro of its own
AbsoluteFacade_OwnGuard ==
  <<Comment, Comment, Comment, Comment, Comment, Comment,
    Blank,
    IfNDefLine("Whisperer_Bridging_Header_Abs_h"),
    DefineLine("Whisperer_Bridging_Header_Abs_h", ""),
    Blank,
    IncludeLine(AbsPrefix, GgmlH),
    IncludeLine(AbsPrefix, GgmlCpuH),
    IncludeLine(AbsPrefix, GgmlBackendH),
    IncludeLine(AbsPrefix, WhisperH),
    Blank,
    EndIfLine>>

\* Whisperer/whisperer/whisperer/Whisperer-Bridging-Header.h, line by line
AbsoluteFacade ==
  <<Comment, Comment, Comment, Comment, Comment, Comment,
    Blank,
    IfNDefLine(Guard),
    DefineLine(Guard, ""),
    Blank,
    IncludeLine(AbsPrefix, GgmlH),
    IncludeLine(AbsPrefix, GgmlCpuH),
    IncludeLine(AbsPrefix, GgmlBackendH),
    IncludeLine(AbsPrefix, WhisperH),
    Blank,
    EndIfLine>>

Variants == {"rel", "abs"}
Facade(v) == IF v = "rel" THEN RelativeFacade ELSE AbsoluteFacade

\* ------------------------------------------------------ build environment
\* "author" is the directory /Users/alexanderi/Downloads/whisperer, "other"
\* is any other directory holding a checkout or a copy of the library.
Roots == {"author", "other"}
NoFile == "none"
Units == {1, 2}

VARIABLES
  files,        \* external header files that exist: pairs <<root, path>>
  projectRoot,  \* the root the repository is checked out under
  searchOther,  \* the include search path reaches the root that is not projectRoot
  units,        \* the compiled units of the build
  macros,       \* per unit: macros defined so far, as [name, body] records
  stack,        \* per unit: include stack, innermost file last
  decls,        \* per unit: external files whose declarations are visible
  trace,        \* per unit: #include directives of the facade executed so far
  status,       \* per unit: "ok" or "failed" (fatal error: file not found)
  order,        \* per unit: facade variants the unit itself included, in order
  reentries     \* per unit: facade inclusions made from inside external headers

env == <<files, projectRoot, searchOther, units>>
vars == <<files, projectRoot, searchOther, units,
          macros, stack, decls, trace, status, order, reentries>>

OtherRoot(r) == IF r = "author" THEN "other" ELSE "author"

\* a lookup that takes every path, absolute ones too, as relative
Resolve_AbsoluteSearched(prefix, path) ==
  IF <<projectRoot, path>> \in files THEN projectRoot
  ELSE IF searchOther /\ <<OtherRoot(projectRoot), path>> \in files
         THEN OtherRoot(projectRoot)
         ELSE NoFile

\* The root under which an #include "prefix path" directive of the facade
\* finds its file, or NoFile.  An absolute path names one file only; a
\* relative one is looked up from the including file's directory (one level
\* below projectRoot) and then along the search path.
Resolve(prefix, path) ==
  IF prefix = AbsPrefix
    THEN IF <<"author", path>> \in files THEN "author" ELSE NoFile
    ELSE IF <<projectRoot, path>> \in files THEN projectRoot
         ELSE IF searchOther /\ <<OtherRoot(projectRoot), path>> \in files
                THEN OtherRoot(projectRoot)
                ELSE NoFile

\* ------------------------------------------------------------ line control
IsDirective(d) == d.op \notin {"comment", "blank"}

\* first directive of file f after line l (comments and blank lines are
\* dropped before directives are executed); Len(f) + 1 is the end of file
NextPc(f, l) ==
  IF \E k \in (l + 1)..Len(f) : IsDirective(f[k])
    THEN CHOOSE k \in (l + 1)..Len(f) :
           /\ IsDirective(f[k])
           /\ \A j \in (l + 1)..(k - 1) : ~IsDirective(f[j])
    ELSE Len(f) + 1

\* the #endif that closes the #ifndef on line l (the facade has no nested
\* conditionals: the next #endif)
MatchingEndIf(f, l) ==
  CHOOSE k \in (l + 1)..Len(f) :
    /\ f[k].op = "endif"
    /\ \A j \in (l + 1)..(k - 1) : f[j].op # "endif"

FacadeFrame(v, l) == [kind |-> "facade", variant |-> v, pc |-> l, root |-> "", path |-> ""]
ExternalFrame(r, p) == [kind |-> "external", variant |-> "", pc |-> 0, root |-> r, path |-> p]

Top(u) == stack[u][Len(stack[u])]
Pop(s) == SubSeq(s, 1, Len(s) - 1)
SetTopPc(s, l) == [s EXCEPT ![Len(s)].pc = l]

Running(u) == u \in units /\ status[u] = "ok" /\ stack[u] # <<>>
AtFacade(u) == Running(u) /\ Top(u).kind = "facade" /\ Top(u).pc <= Len(Facade(Top(u).variant))
Cur(u) == Facade(Top(u).variant)[Top(u).pc]
IsDefined(u, m) == \E d \in macros[u] : d.name = m

\* ------------------------------------------------------------------- Init
InitUnits ==
  /\ macros = [u \in Units |-> {}]
  /\ stack = [u \in Units |-> <<>>]
  /\ decls = [u \in Units |-> {}]
  /\ trace = [u \in Units |-> <<>>]
  /\ status = [u \in Units |-> "ok"]
  /\ order = [u \in Units |-> <<>>]
  /\ reentries = [u \in Units |-> 0]

InitEnv ==
  /\ files \in SUBSET (Roots \X HeaderSet)
  /\ projectRoot \in Roots
  /\ searchOther \in BOOLEAN

Init == InitEnv /\ units = {1} /\ InitUnits

\* two fresh units compiled in the same environment
InitPair == InitEnv /\ units = Units /\ InitUnits

\* ---------------------------------------------------------------- actions
\* the unit's own source includes facade variant v (at most max times)
StartInclude(u, v, max) ==
  /\ u \in units /\ status[u] = "ok" /\ stack[u] = <<>>
  /\ Len(order[u]) < max
  /\ stack' = [stack EXCEPT ![u] = <<FacadeFrame(v, NextPc(Facade(v), 0))>>]
  /\ order' = [order EXCEPT ![u] = Append(@, v)]
  /\ UNCHANGED <<env, macros, decls, trace, status, reentries>>

\* #ifndef Whisperer_Bridging_Header_h
IfNDef(u) ==
  /\ AtFacade(u) /\ Cur(u).op = "ifndef"
  /\ LET f == Facade(Top(u).variant)
         l == Top(u).pc
     IN stack' = [stack EXCEPT ![u] =
                    SetTopPc(@, IF IsDefined(u, Cur(u).macro)
                                  THEN MatchingEndIf(f, l)
                                  ELSE NextPc(f, l))]
  /\ UNCHANGED <<env, macros, decls, trace, status, order, reentries>>

\* #define Whisperer_Bridging_Header_h
Define(u) ==
  /\ AtFacade(u) /\ Cur(u).op = "define"
  /\ macros' = [macros EXCEPT ![u] =
                  {d \in @ : d.name # Cur(u).macro}
                    \cup {[name |-> Cur(u).macro, body |-> Cur(u).body]}]
  /\ stack' = [stack EXCEPT ![u] = SetTopPc(@, NextPc(Facade(Top(u).variant), Top(u).pc))]
  /\ UNCHANGED <<env, decls, trace, status, order, reentries>>

\* #include "<prefix><path>": enter the external header, or stop the
\* compilation with a fatal error when no file is found
Include(u) ==
  /\ AtFacade(u) /\ Cur(u).op = "include"
  /\ LET v == Top(u).variant
         l == Top(u).pc
         r == Resolve(Cur(u).prefix, Cur(u).path)
     IN /\ trace' = [trace EXCEPT ![u] =
                       Append(@, [by |-> v, line |-> l, path |-> Cur(u).path, root |-> r])]
        /\ IF r = NoFile
             THEN /\ status' = [status EXCEPT ![u] = "failed"]
                  /\ UNCHANGED stack
             ELSE /\ stack' = [stack EXCEPT ![u] =
                                 Append(SetTopPc(@, NextPc(Facade(v), l)),
                                        ExternalFrame(r, Cur(u).path))]
                  /\ UNCHANGED status
  /\ UNCHANGED <<env, macros, decls, order, reentries>>

\* an external header includes facade variant v itself
Reenter(u, v) ==
  /\ Running(u) /\ Top(u).kind = "external"
  /\ reentries[u] < MaxReentry
  /\ stack' = [stack EXCEPT ![u] = Append(@, FacadeFrame(v, NextPc(Facade(v), 0)))]
  /\ reentries' = [reentries EXCEPT ![u] = @ + 1]
  /\ UNCHANGED <<env, macros, decls, trace, status, order>>

\* the rest of an external header: its declarations become visible
ExternalBody(u) ==
  /\ Running(u) /\ Top(u).kind = "external"
  /\ decls' = [decls EXCEPT ![u] = @ \cup {<<Top(u).root, Top(u).path>>}]
  /\ stack' = [stack EXCEPT ![u] = Pop(@)]
  /\ UNCHANGED <<env, macros, trace, status, order, reentries>>

\* #endif /* Whisperer_Bridging_Header_h */ and the end of the file
EndIf(u) ==
  /\ AtFacade(u) /\ Cur(u).op = "endif"
  /\ stack' = [stack EXCEPT ![u] = Pop(@)]
  /\ UNCHANGED <<env, macros, decls, trace, status, order, reentries>>

Next ==
  \E u \in Units :
    \/ \E v \in Variants : StartInclude(u, v, MaxIncludes)
    \/ IfNDef(u)
    \/ Define(u)
    \/ Include(u)
    \/ \E v \in Variants : Reenter(u, v)
    \/ ExternalBody(u)
    \/ EndIf(u)

Spec == Init /\ [][Next]_vars

\* each of two fresh units includes the facade once
NextPair ==
  \E u \in Units :
    \/ \E v \in Variants : StartInclude(u, v, 1)
    \/ IfNDef(u)
    \/ Define(u)
    \/ Include(u)
    \/ ExternalBody(u)
    \/ EndIf(u)

SpecPair == InitPair /\ [][NextPair]_vars

\* ------------------------------------------------- what a unit has seen
PrefixOf(v) == IF v = "rel" THEN RelPrefix ELSE AbsPrefix

\* the unit's source has included the facade at least once
Included(u) == u \in units /\ Len(order[u]) >= 1
First(u) == order[u][1]

\* the unit's first inclusion of the facade has run to the end of the file
FirstDone(u) ==
  /\ u \in units
  /\ \/ Len(order[u]) >= 2
     \/ Len(order[u]) = 1 /\ stack[u] = <<>>

\* the unit has nothing left to preprocess, or has stopped with an error
Settled(u) == Included(u) /\ (stack[u] = <<>> \/ status[u] = "failed")

\* every one of the four headers is found through variant v's paths
AllResolve(v) == \A p \in HeaderSet : Resolve(PrefixOf(v), p) # NoFile

\* the files the four headers resolve to through variant v's paths
ResolvedFiles(v) == {<<Resolve(PrefixOf(v), p), p>> : p \in HeaderSet}

\* some file under /Users/alexanderi/Downloads/whisperer/whisper.cpp/ is absent
AuthorMissing == \E p \in HeaderSet : <<"author", p>> \notin files

\* header groups whose declarations the unit sees
VisibleGroups(u) == {d[2] : d \in decls[u]}

\* no header was entered twice by the facade's directives
NoRedefinition(u) ==
  \A i, j \in 1..Len(trace[u]) : trace[u][i].path = trace[u][j].path => i = j

\* the symbols the host layer sees after importing the unit: the external
\* headers' declarations, and every macro with a value (imported as a constant)
Visible(u) ==
  {[kind |-> "external", root |-> d[1], name |-> d[2]] : d \in decls[u]}
    \cup {[kind |-> "macro", root |-> "", name |-> m.name] :
            m \in {x \in macros[u] : x.body # ""}}

ExternalDecls(fs) == {[kind |-> "external", root |-> d[1], name |-> d[2]] : d \in fs}

\* ----------------------------------------------------------------- claims

\* C1: once a unit's first inclusion of the facade is complete, no later
\* inclusion in that unit executes an #include directive: the directives
\* executed, the visible declarations and the unit's status stay as they were.
C1_RepeatedInclusionIsNoOp ==
  [][\A u \in Units :
       FirstDone(u) =>
         /\ trace'[u] = trace[u]
         /\ decls'[u] = decls[u]
         /\ status'[u] = status[u]]_vars

\* a unit that included the facade twice, both inclusions complete
C1_Witness ==
  \E u \in units :
    /\ Len(order[u]) = 2 /\ stack[u] = <<>> /\ status[u] = "ok"
    /\ Len(trace[u]) = 4 /\ Cardinality(decls[u]) = 4

\* C2: where all four headers are found through the paths of the variant a
\* unit includes first, that inclusion never fails and, once complete, has
\* made exactly the four resolved headers visible, each entered once.
C2_FirstInclusionSucceeds ==
  \A u \in units :
    (Included(u) /\ AllResolve(First(u))) =>
      /\ status[u] = "ok"
      /\ FirstDone(u) =>
           /\ decls[u] = ResolvedFiles(First(u))
           /\ VisibleGroups(u) = HeaderSet
           /\ Len(trace[u]) = Len(Headers)
           /\ NoRedefinition(u)

\* the relative variant, included once in a checkout away from the author's
C2_Witness ==
  \E u \in units :
    /\ order[u] = <<"rel">> /\ stack[u] = <<>>
    /\ projectRoot = "other" /\ AllResolve("rel") /\ ~searchOther
    /\ VisibleGroups(u) = HeaderSet

\* C3: the symbols a unit sees are declarations of external headers only,
\* and after a complete first inclusion they are exactly those of the four
\* headers the first variant resolves to; the facade adds none of its own.
C3_PurePassThrough ==
  \A u \in units :
    /\ Visible(u) \subseteq ExternalDecls(Roots \X HeaderSet)
    /\ FirstDone(u) => Visible(u) = ExternalDecls(ResolvedFiles(First(u)))

\* a complete inclusion: the guard macro is defined, yet only the four
\* external headers' declarations are visible
C3_Witness ==
  \E u \in units :
    /\ FirstDone(u) /\ IsDefined(u, Guard)
    /\ Cardinality(Visible(u)) = 4
    /\ order[u] = <<"abs">>

\* C4 as claimed: whenever a unit has included the absolute-path variant and
\* one of the four files under the author's directory is absent, that
\* inclusion does not complete without a build failure.
C4_AbsoluteAlwaysFails ==
  \A u \in units :
    (AuthorMissing /\ \E i \in 1..Len(order[u]) : order[u][i] = "abs") =>
      ~(stack[u] = <<>> /\ status[u] = "ok")

\* C4 amended: when the absolute-path variant is the first facade inclusion
\* of a unit and one of the four files under the author's directory is
\* absent, the inclusion never completes, and the unit has failed as soon as
\* a directive naming an absent file was executed, whatever the search path
\* and whatever copies exist elsewhere.
C4_AbsoluteFirstFails ==
  \A u \in units :
    (Included(u) /\ First(u) = "abs" /\ AuthorMissing) =>
      /\ ~FirstDone(u)
      /\ (\E i \in 1..Len(trace[u]) : <<"author", trace[u][i].path>> \notin files)
           => status[u] = "failed"

\* the absolute variant failed although a full copy of the library is in the
\* checkout and on the search path
C4_Witness ==
  \E u \in units :
    /\ Included(u) /\ First(u) = "abs" /\ status[u] = "failed"
    /\ projectRoot = "other" /\ searchOther
    /\ \A p \in HeaderSet : <<"other", p>> \in files

C6_VariantsEquivalent ==
  \A u, w \in units :
    (/\ order[u] = <<"rel">> /\ order[w] = <<"abs">>
     /\ Settled(u) /\ Settled(w)
     /\ \A p \in HeaderSet : Resolve(RelPrefix, p) = Resolve(AbsPrefix, p)) =>
      /\ macros[u] = macros[w]
      /\ decls[u] = decls[w]
      /\ status[u] = status[w]
      /\ Len(trace[u]) = Len(trace[w])
      /\ \A i \in 1..Len(trace[u]) :
           [trace[u][i] EXCEPT !.by = ""] = [trace[w][i] EXCEPT !.by = ""]

\* both units complete in a checkout at the author's directory
C6_Witness ==
  \E u, w \in units :
    /\ order[u] = <<"rel">> /\ order[w] = <<"abs">>
    /\ stack[u] = <<>> /\ stack[w] = <<>>
    /\ projectRoot = "author"
    /\ Cardinality(decls[u]) = 4 /\ Cardinality(decls[w]) = 4

\* C7: every #include directive a unit executes belongs to the variant it
\* included first, and once that first inclusion is complete the unit cannot
\* fail, whichever variant is included afterwards.
C7_OnlyFirstVariantProcessed ==
  \A u \in units :
    Included(u) =>
      /\ \A i \in 1..Len(trace[u]) : trace[u][i].by = First(u)
      /\ FirstDone(u) => status[u] = "ok"

\* relative first, absolute second, complete, with no file at the absolute
\* paths at all
C7_Witness ==
  \E u \in units :
    /\ order[u] = <<"rel", "abs">> /\ stack[u] = <<>> /\ status[u] = "ok"
    /\ \A p \in HeaderSet : <<"author", p>> \notin files

\* C8: the directives a unit executes are ggml.h, ggml-cpu.h, ggml-backend.h,
\* whisper.h in that order, the guard macro is defined before the first of
\* them, and a facade file entered from inside an external header only
\* executes its #ifndef and #endif.
C8_FixedOrderGuardFirst ==
  \A u \in units :
    /\ Len(trace[u]) <= Len(Headers)
    /\ \A i \in 1..Len(trace[u]) : trace[u][i].path = Headers[i]
    /\ trace[u] # <<>> => IsDefined(u, Guard)
    /\ \A k \in 2..Len(stack[u]) :
         (stack[u][k].kind = "facade" /\ stack[u][k].pc <= Len(Facade(stack[u][k].variant))) =>
           Facade(stack[u][k].variant)[stack[u][k].pc].op \in {"ifndef", "endif"}

\* a complete inclusion during which an external header included the facade
C8_Witness ==
  \E u \in units :
    /\ reentries[u] = 1 /\ stack[u] = <<>> /\ Len(order[u]) = 1
    /\ Len(trace[u]) = 4 /\ status[u] = "ok"

====
